---- MODULE Spec2Model ----
(***************************************************************************)
(* A model of the validation and dispatch logic of buildly-core:           *)
(*   webhook/utils.py        find_and_fire_hook                            *)
(*   workflow/serializers.py HookSerializer, PermissionsField,             *)
(*                           CoreUserSerializer, CoreUserWritableSerializer,*)
(*                           CoreUserResetPasswordCheck/ConfirmSerializer  *)
(* The database tables (Hook, Organization, CoreGroup, CoreUser) are the   *)
(* state; every serializer call or handler is one action that records its  *)
(* inputs and its outcome in a "last call" variable.                       *)
(***************************************************************************)
EXTENDS Integers, Sequences, FiniteSets, Bags, TLC

VARIABLES hooks, fired, perm, organizations, groups, users, call, reset

vars == <<hooks, fired, perm, organizations, groups, users, call, reset>>

(***************************************************************************)
(* Bounds of the model.                                                    *)
(***************************************************************************)
MaxHooks == 3
MaxValue == 20
MaxUsers == 2
MaxGroups == 2
NumOrgs == 2
NumEmails == 2
NumPasswords == 1

(***************************************************************************)
(* webhook/utils.py                                                        *)
(***************************************************************************)

\* settings.HOOK_EVENTS: the registered event names (its keys).
HOOK_EVENTS == {"workflowlevel1.changed", "workflowlevel2.changed"}

\* Event names a caller may pass: the registered ones and one that is not.
EventNames == HOOK_EVENTS \cup {"coreuser.unregistered"}

\* The literal assigned to hook.target before every delivery.
FixedTarget == "http://productsservice:8080/webhook/"

\* Targets a client may store on a Hook.
Targets == {"http://client.example/hook/", FixedTarget}

NoFire == [called |-> FALSE, event |-> "", raised |-> FALSE, looked_up |-> FALSE,
           stored |-> <<>>, deliveries |-> EmptyBag]

\* HookSerializer.validate_event: the event must be registered.
validate_event(event) == event \in HOOK_EVENTS

\* POST /webhook/: a Hook row is stored when the serializer accepts the event.
CreateHook(event, target) ==
    /\ Len(hooks) < MaxHooks
    /\ hooks' = IF validate_event(event)
                THEN Append(hooks, [event |-> event, target |-> target])
                ELSE hooks
    /\ UNCHANGED <<fired, perm, organizations, groups, users, call, reset>>

\* Hook.objects.filter(event=event_name): the primary keys of the matching rows.
HookFilter(stored, event_name) ==
    {i \in 1..Len(stored) : stored[i].event = event_name}

\* The mutated guard: every event name passes.
EventRegisteredAlways(event_name) == TRUE

\* `event_name not in HOOK_EVENTS.keys()` negated: the call goes on.
EventRegistered(event_name) == event_name \in HOOK_EVENTS

\* The mutated delivery target: the target stored on the Hook.
DeliveryTargetStored(hook) == hook.target

\* hook.target = 'http://productsservice:8080/webhook/' (in memory, not saved).
DeliveryTarget(hook) == FixedTarget

\* The for loop: one deliver_hook per hook of the queryset.
RECURSIVE DeliverAll(_, _)
DeliverAll(stored, pks) ==
    IF pks = {} THEN EmptyBag
    ELSE LET pk == CHOOSE i \in pks : TRUE
         IN  SetToBag({[hook |-> pk, target |-> DeliveryTarget(stored[pk])]})
             (+) DeliverAll(stored, pks \ {pk})

find_and_fire_hook(event_name) ==
    /\ fired' = IF ~EventRegistered(event_name)
                THEN [called |-> TRUE, event |-> event_name, raised |-> TRUE,
                      looked_up |-> FALSE, stored |-> hooks, deliveries |-> EmptyBag]
                ELSE [called |-> TRUE, event |-> event_name, raised |-> FALSE,
                      looked_up |-> TRUE, stored |-> hooks,
                      deliveries |-> DeliverAll(hooks, HookFilter(hooks, event_name))]
    /\ UNCHANGED <<hooks, perm, organizations, groups, users, call, reset>>

HookInit ==
    /\ hooks = <<>>
    /\ fired = NoFire

(***************************************************************************)
(* workflow/serializers.py: PermissionsField                               *)
(***************************************************************************)

\* PermissionsField._keys, in order.
_keys == <<"create", "read", "update", "delete">>

\* set(self._keys)
KeySet == {_keys[i] : i \in 1..Len(_keys)}

\* Keys a client may send: the four of _keys and one that is not among them.
KeyUniverse == KeySet \cup {"execute"}

\* The dicts of booleans DictField(child=BooleanField()) lets through.
BoolDicts == UNION {[S -> BOOLEAN] : S \in SUBSET KeyUniverse}

EmptyDict == [k \in {} |-> FALSE]

\* The binary digits of n, most significant first ('{0:b}'.format(n)).
RECURSIVE Bin(_)
Bin(n) == IF n < 2 THEN <<n>> ELSE Bin(n \div 2) \o <<n % 2>>

\* '{0:04b}'.format(n): the digits, zero-padded on the left to width 4 at least.
RECURSIVE PadLeft(_, _)
PadLeft(digits, width) ==
    IF Len(digits) >= width THEN digits ELSE PadLeft(<<0>> \o digits, width)

Format04b(n) == PadLeft(Bin(n), 4)

\* The mutated clamp: the value is formatted as it is.
ClampNone(value) == value

\* `value if value < 16 else 15`
Clamp(value) == IF value < 16 THEN value ELSE 15

\* dict(zip(keys, map(bool, map(int, digits)))): zip stops at the shorter one.
ZipDict(keys, digits) ==
    LET n == IF Len(keys) < Len(digits) THEN Len(keys) ELSE Len(digits)
    IN  [k \in {keys[i] : i \in 1..n} |->
            digits[CHOOSE i \in 1..n : keys[i] = k] # 0]

to_representation(value) == ZipDict(_keys, Format04b(Clamp(value)))

\* The mutated key check: the four keys present, others tolerated.
KeysMatchSuperset(data) == KeySet \subseteq DOMAIN data

\* set(keys) == set(self._keys)
KeysMatch(data) == DOMAIN data = KeySet

\* int(s, 2) of a digit sequence.
RECURSIVE ParseBin(_)
ParseBin(digits) ==
    IF digits = <<>> THEN 0
    ELSE 2 * ParseBin(SubSeq(digits, 1, Len(digits) - 1)) + digits[Len(digits)]

\* ''.join([str(int(data[key])) for key in self._keys])
JoinBits(data) == [i \in 1..Len(_keys) |-> IF data[_keys[i]] THEN 1 ELSE 0]

IncorrectKeys == "Permissions field: incorrect keys format"

\* The integer to_internal_value returns, -1 standing for "raised".
NoNumber == -1

to_internal_value(data) ==
    IF ~KeysMatch(data)
    THEN [error |-> IncorrectKeys, number |-> NoNumber]
    ELSE [error |-> "", number |-> ParseBin(JoinBits(data))]

NoPerm == [op |-> "none", value |-> 0, data |-> EmptyDict, result |-> EmptyDict,
           number |-> NoNumber, error |-> ""]

\* Serialising a CoreGroup: the stored integer becomes the JSON object.
Represent(value) ==
    /\ perm' = [NoPerm EXCEPT !.op = "to_representation", !.value = value,
                              !.result = to_representation(value)]
    /\ UNCHANGED <<hooks, fired, organizations, groups, users, call, reset>>

\* Deserialising a CoreGroup: the JSON object becomes the integer, or is refused.
Internalize(data) ==
    /\ perm' = [NoPerm EXCEPT !.op = "to_internal_value", !.data = data,
                              !.number = to_internal_value(data).number,
                              !.error = to_internal_value(data).error]
    /\ UNCHANGED <<hooks, fired, organizations, groups, users, call, reset>>

(***************************************************************************)
(* workflow/serializers.py: CoreGroupSerializer, CoreUserSerializer,       *)
(* CoreUserWritableSerializer                                              *)
(***************************************************************************)

OrgNames == 1..NumOrgs
Emails == 1..NumEmails

\* A request without an email, or a token payload without an 'email' claim.
NoEmail == 0

\* Passwords; 0 is one that the configured password validators reject.
Passwords == 0..NumPasswords

\* wfm.PERMISSIONS_ORG_ADMIN: all four permissions.
PERMISSIONS_ORG_ADMIN == 15

\* The permissions a client gives a group it creates, as PermissionsField
\* turns them into integers: everything, or read only.
GroupPermissions ==
    {to_internal_value([k \in KeySet |-> TRUE]).number,
     to_internal_value([k \in KeySet |-> k = "read"]).number}

\* An invitation token: `signed` says that jwt.decode verifies it with
\* settings.SECRET_KEY, `expired` that its exp claim is in the past, `email`
\* is the 'email' claim of its payload.
Tokens == [present : {TRUE}, signed : BOOLEAN, expired : BOOLEAN,
           email : Emails \cup {NoEmail}]

\* No invitation_token in the request (the field is not required).
NoToken == [present |-> FALSE, signed |-> FALSE, expired |-> FALSE, email |-> NoEmail]

\* jwt.decode(value, settings.SECRET_KEY, algorithms='HS256'): the signature is
\* verified before the exp claim.
jwt_decode(value) ==
    IF ~value.signed THEN "DecodeError"
    ELSE IF value.expired THEN "ExpiredSignatureError"
    ELSE "decoded"

\* User.objects.filter(email=email).exists()
EmailExists(us, email) == \E i \in 1..Len(us) : us[i].email = email

NotValid == "Token is not valid."
Expired == "Token is expired."

\* The mutated validator: the lookup of an existing user is left out.
validate_invitation_token_no_lookup(value, initial_email, us) ==
    CASE jwt_decode(value) = "DecodeError" -> NotValid
      [] jwt_decode(value) = "ExpiredSignatureError" -> Expired
      [] OTHER ->
            IF value.email = NoEmail THEN "KeyError"
            ELSE IF initial_email = NoEmail THEN "KeyError"
            ELSE IF value.email # initial_email THEN NotValid
            ELSE "valid"

\* CoreUserSerializer.validate_invitation_token: "valid" (the value is returned),
\* the message of the ValidationError, or "KeyError" when decoded['email'] or
\* self.initial_data['email'] is missing (no except clause catches it).
validate_invitation_token(value, initial_email, us) ==
    CASE jwt_decode(value) = "DecodeError" -> NotValid
      [] jwt_decode(value) = "ExpiredSignatureError" -> Expired
      [] OTHER ->
            IF value.email = NoEmail THEN "KeyError"
            ELSE IF EmailExists(us, value.email) THEN NotValid
            ELSE IF initial_email = NoEmail THEN "KeyError"
            ELSE IF value.email # initial_email THEN NotValid
            ELSE "valid"

\* POST /coregroups/: CoreGroupSerializer stores a group of an organization.
CreateGroup(organization, is_org_level, permissions) ==
    /\ Len(groups) < MaxGroups
    /\ organization \in organizations
    /\ groups' = Append(groups, [organization |-> organization,
                                 is_org_level |-> is_org_level,
                                 permissions |-> permissions])
    /\ UNCHANGED <<hooks, fired, perm, organizations, users, call, reset>>

\* The CoreGroup table after get_or_create: the model layer (not part of the
\* serializers) may store the admin group of an organization it creates.
GroupsAfterOrg(gs, name, created, with_admin) ==
    IF created /\ with_admin
    THEN Append(gs, [organization |-> name, is_org_level |-> TRUE,
                     permissions |-> PERMISSIONS_ORG_ADMIN])
    ELSE gs

\* Organization.objects.get_or_create(name=name): the table afterwards.
get_or_create(orgs, name) == orgs \cup {name}

\* The second value get_or_create returns.
is_new_org(orgs, name) == name \notin orgs

\* CoreGroup.objects.get(organization=.., is_org_level=True,
\* permissions=PERMISSIONS_ORG_ADMIN): the matching primary keys; get returns
\* the single one and raises when there is none or more than one.
OrgAdminGroups(gs, organization) ==
    {g \in 1..Len(gs) : /\ gs[g].organization = organization
                        /\ gs[g].is_org_level
                        /\ gs[g].permissions = PERMISSIONS_ORG_ADMIN}

\* The mutated flag: the client's is_active is kept when it sends one.
IsActiveSupplied(new_org, invitation_token, supplied) == supplied

\* validated_data['is_active'] = is_new_org or bool(invitation_token)
IsActive(new_org, invitation_token, supplied) ==
    new_org \/ invitation_token.present

\* The mutated condition: the admin group is added for every organization.
AddsOrgAdminAlways(new_org) == TRUE

\* `if is_new_org:` before the admin group is looked up and added.
AddsOrgAdmin(new_org) == new_org

NoCall == [op |-> "none", email |-> NoEmail, organization_name |-> 0,
           token |-> NoToken, is_active |-> FALSE, core_groups |-> {},
           org_existed |-> FALSE, result |-> "", pk |-> 0]

\* The requests POST /coreuser/ takes: core_groups are primary keys of stored
\* groups (PrimaryKeyRelatedField), the token is optional.
CreateRequests ==
    [email : Emails \cup {NoEmail}, organization_name : OrgNames,
     token : Tokens \cup {NoToken}, is_active : BOOLEAN,
     core_groups : SUBSET (1..Len(groups)), password : Passwords]

\* POST /coreuser/: field validation (validate_invitation_token when a token
\* is sent), then CoreUserWritableSerializer.create.  with_admin is the model
\* layer's choice for an organization this call creates.
CreateUser(data, with_admin) ==
    LET checked == IF data.token.present
                   THEN validate_invitation_token(data.token, data.email, users)
                   ELSE "valid"
        new_org == is_new_org(organizations, data.organization_name)
        gs      == GroupsAfterOrg(groups, data.organization_name, new_org, with_admin)
        admins  == OrgAdminGroups(gs, data.organization_name)
        found   == ~AddsOrgAdmin(new_org) \/ Cardinality(admins) = 1
        added   == (IF AddsOrgAdmin(new_org) /\ found THEN admins ELSE {})
                   \cup (IF found THEN data.core_groups ELSE {})
        coreuser == [email |-> data.email,
                     organization |-> data.organization_name,
                     is_active |-> IsActive(new_org, data.token, data.is_active),
                     password |-> data.password,
                     core_groups |-> added]
        entry == [op |-> "create", email |-> data.email,
                  organization_name |-> data.organization_name,
                  token |-> data.token, is_active |-> data.is_active,
                  core_groups |-> data.core_groups,
                  org_existed |-> data.organization_name \in organizations,
                  result |-> "", pk |-> 0]
    IN  /\ Len(users) < MaxUsers
        /\ IF checked # "valid"
           THEN /\ call' = [entry EXCEPT !.result = checked]
                /\ UNCHANGED <<organizations, groups, users>>
           ELSE /\ organizations' = get_or_create(organizations, data.organization_name)
                /\ groups' = gs
                /\ users' = Append(users, coreuser)
                /\ call' = [entry EXCEPT
                              !.result = IF found THEN "created" ELSE "DoesNotExist",
                              !.pk = Len(users) + 1]
        /\ UNCHANGED <<hooks, fired, perm, reset>>

(***************************************************************************)
(* workflow/serializers.py: CoreUserResetPasswordCheckSerializer,          *)
(* CoreUserResetPasswordConfirmSerializer                                  *)
(***************************************************************************)

\* A uid that urlsafe_base64_decode or the pk lookup cannot read.
BadUid == 0

\* The uid values a client may send: BadUid, or the encoding of a primary key
\* (of a stored user or of none).
Uids == BadUid..(MaxUsers + 1)

\* Password-reset tokens: made for user `pk`; `current` says that
\* default_token_generator still accepts it for that user (it matches the
\* user's present state and has not timed out).
ResetTokens == [pk : 1..MaxUsers, current : BOOLEAN]

\* force_text(urlsafe_base64_decode(uid)) and User.objects.get(pk=uid):
\* the primary key found, or BadUid for any of the caught exceptions.
UserOfUid(us, uid) == IF uid = BadUid \/ uid > Len(us) THEN BadUid ELSE uid

\* The mutated check: any token that some user could use is accepted.
check_token_any_user(user_pk, token) == token.current

\* default_token_generator.check_token(self.user, token)
check_token(user_pk, token) == token.pk = user_pk /\ token.current

\* password_validation.validate_password(password2, self.user)
validate_password(password) == password # 0

Mismatch == "The two password fields didn't match."

\* CoreUserResetPasswordConfirmSerializer.validate: "valid", or what the
\* ValidationError names.
ResetValidate(us, uid, token, new_password1, new_password2) ==
    IF UserOfUid(us, uid) = BadUid THEN "uid"
    ELSE IF ~check_token(UserOfUid(us, uid), token) THEN "token"
    ELSE IF new_password1 # new_password2 THEN Mismatch
    ELSE IF ~validate_password(new_password2) THEN "password_validation"
    ELSE "valid"

NoReset == [called |-> FALSE, uid |-> BadUid, token |-> [pk |-> 1, current |-> FALSE],
            new_password1 |-> 0, new_password2 |-> 0, result |-> "", before |-> <<>>]

\* POST of the reset-password confirmation: is_valid(), and save() when valid.
ResetPasswordConfirm(uid, token, new_password1, new_password2) ==
    LET checked == ResetValidate(users, uid, token, new_password1, new_password2)
    IN  /\ reset' = [called |-> TRUE, uid |-> uid, token |-> token,
                     new_password1 |-> new_password1, new_password2 |-> new_password2,
                     result |-> checked, before |-> users]
        /\ users' = IF checked = "valid"
                    THEN [users EXCEPT ![UserOfUid(users, uid)].password = new_password1]
                    ELSE users
        /\ UNCHANGED <<hooks, fired, perm, organizations, groups, call>>

(***************************************************************************)
(* Specifications                                                          *)
(***************************************************************************)

Init ==
    /\ HookInit
    /\ perm = NoPerm
    /\ organizations = {}
    /\ groups = <<>>
    /\ users = <<>>
    /\ call = NoCall
    /\ reset = NoReset

NextHook ==
    \/ \E event \in EventNames, target \in Targets : CreateHook(event, target)
    \/ \E event_name \in EventNames : find_and_fire_hook(event_name)

SpecHook == Init /\ [][NextHook]_vars

NextPerm ==
    \/ \E value \in 0..MaxValue : Represent(value)
    \/ \E data \in BoolDicts : Internalize(data)

SpecPerm == Init /\ [][NextPerm]_vars

\* An invitation token the validator accepts for a new email.
InvitationFor(email) ==
    [present |-> TRUE, signed |-> TRUE, expired |-> FALSE, email |-> email]

\* Sign-ups for the group and activation rules: a subset of CreateRequests
\* in which the token, when one is sent, is one made for the submitted email;
\* the password plays no part in create.
UninvitedSignUps ==
    [email : Emails, organization_name : OrgNames, token : {NoToken},
     is_active : BOOLEAN, core_groups : SUBSET (1..Len(groups)), password : {1}]

SignUps ==
    UninvitedSignUps
    \cup {[d EXCEPT !.token = InvitationFor(d.email)] : d \in UninvitedSignUps}

NextUser ==
    \/ \E o \in OrgNames, l \in BOOLEAN, p \in GroupPermissions : CreateGroup(o, l, p)
    \/ \E data \in SignUps, with_admin \in BOOLEAN : CreateUser(data, with_admin)

SpecUser == Init /\ [][NextUser]_vars

\* Sign-ups with every kind of token and email, into one organization: a
\* subset of CreateRequests.
InviteSignUps ==
    [email : Emails \cup {NoEmail}, organization_name : {1},
     token : Tokens \cup {NoToken}, is_active : {FALSE}, core_groups : {{}},
     password : {1}]

NextInvite == \E data \in InviteSignUps : CreateUser(data, TRUE)

SpecInvite == Init /\ [][NextInvite]_vars

\* Sign-ups that differ in the password only: a subset of CreateRequests.
PlainSignUps ==
    [email : {1}, organization_name : {1}, token : {NoToken}, is_active : {TRUE},
     core_groups : {{}}, password : Passwords]

NextReset ==
    \/ \E data \in PlainSignUps : CreateUser(data, TRUE)
    \/ \E uid \in Uids, token \in ResetTokens, p1 \in Passwords, p2 \in Passwords :
          ResetPasswordConfirm(uid, token, p1, p2)

SpecReset == Init /\ [][NextReset]_vars

(***************************************************************************)
(* Properties                                                              *)
(***************************************************************************)

\* Deliveries the last find_and_fire_hook call made for the hook with key pk.
DeliveriesOf(pk) ==
    LET made == {d \in BagToSet(fired.deliveries) : d.hook = pk}
    IN  IF made = {} THEN 0
        ELSE BagCardinality([d \in made |-> CopiesIn(d, fired.deliveries)])

\* C1: a call with an event name that is no key of HOOK_EVENTS raises, and in
\* that call no Hook is looked up and nothing is delivered, whatever is stored.
C1_UnknownEventRaises ==
    (fired.called /\ fired.event \notin HOOK_EVENTS) =>
        /\ fired.raised
        /\ ~fired.looked_up
        /\ BagToSet(fired.deliveries) = {}

\* An unregistered event was fired while hooks were stored, and the call raised.
C1_Witness ==
    /\ fired.called
    /\ fired.event \notin HOOK_EVENTS
    /\ Len(fired.stored) > 0
    /\ fired.raised

\* C2: a call with a registered event name delivers exactly once for every
\* stored Hook of that event, never for a Hook of another event, and every
\* delivery goes to the fixed URL, whatever target the Hook stores.
C2_OneDeliveryPerMatchingHook ==
    (fired.called /\ fired.event \in HOOK_EVENTS) =>
        /\ ~fired.raised
        /\ \A pk \in 1..Len(fired.stored) :
              DeliveriesOf(pk) = IF fired.stored[pk].event = fired.event THEN 1 ELSE 0
        /\ \A d \in BagToSet(fired.deliveries) :
              /\ d.hook \in 1..Len(fired.stored)
              /\ d.target = "http://productsservice:8080/webhook/"

\* A registered event was fired with a matching hook whose stored target is
\* another URL, and with a hook of another event.
C2_Witness ==
    /\ fired.called
    /\ fired.event \in HOOK_EVENTS
    /\ \E pk \in 1..Len(fired.stored) :
          /\ fired.stored[pk].event = fired.event
          /\ fired.stored[pk].target # "http://productsservice:8080/webhook/"
          /\ DeliveriesOf(pk) = 1
    /\ \E pk \in 1..Len(fired.stored) : fired.stored[pk].event # fired.event

\* C3: a dict of booleans is accepted exactly when its key set is {create,
\* read, update, delete}; with a missing or an extra key it is rejected with
\* 'Permissions field: incorrect keys format' and no integer comes out.
C3_ExactKeys ==
    perm.op = "to_internal_value" =>
        /\ perm.error = "" <=> DOMAIN perm.data = {"create", "read", "update", "delete"}
        /\ perm.error = "" => perm.number \in 0..15
        /\ perm.error # "" =>
              /\ perm.error = "Permissions field: incorrect keys format"
              /\ perm.number = NoNumber

\* A dict with the four keys and one more was rejected.
C3_Witness ==
    /\ perm.op = "to_internal_value"
    /\ {"create", "read", "update", "delete"} \subseteq DOMAIN perm.data
    /\ "execute" \in DOMAIN perm.data
    /\ perm.error = "Permissions field: incorrect keys format"

\* C4: for v in 0..15 the representation has exactly the four keys, create
\* being bit 8 of v, read bit 4, update bit 2 and delete bit 1 (9 gives create
\* and delete only); for v >= 16 it is the representation of 15, all true.
C4_BitsOfValue ==
    perm.op = "to_representation" =>
        LET v == perm.value
            r == perm.result
        IN  /\ DOMAIN r = {"create", "read", "update", "delete"}
            /\ v <= 15 =>
                  /\ r["create"] <=> (v \div 8) % 2 = 1
                  /\ r["read"]   <=> (v \div 4) % 2 = 1
                  /\ r["update"] <=> (v \div 2) % 2 = 1
                  /\ r["delete"] <=> v % 2 = 1
            /\ v = 9 => r["create"] /\ ~r["read"] /\ ~r["update"] /\ r["delete"]
            /\ v >= 16 => r["create"] /\ r["read"] /\ r["update"] /\ r["delete"]

\* 16 was represented, with all four permissions true.
C4_Witness ==
    /\ perm.op = "to_representation"
    /\ perm.value = 16
    /\ \A k \in DOMAIN perm.result : perm.result[k]

\* The User table as the last sign-up found it.
UsersBefore == IF call.pk = 0 THEN users ELSE SubSeq(users, 1, call.pk - 1)

\* A User with the email of the last sign-up's token existed before it.
TokenEmailTaken ==
    \E i \in 1..Len(UsersBefore) : UsersBefore[i].email = call.token.email

TokenAcceptedOnlyWhen ==
    call.result \in {"created", "DoesNotExist"} =>
        /\ call.token.signed
        /\ ~call.token.expired
        /\ ~TokenEmailTaken
        /\ call.token.email = call.email

\* C5 as stated: a token is accepted only when it decodes, is not expired, its
\* email belongs to no User and equals the submitted email; one that fails to
\* decode, whose email belongs to a User or whose email differs from the
\* submitted one gets 'Token is not valid.', an expired one 'Token is expired.'.
C5_Original ==
    (call.op = "create" /\ call.token.present) =>
        /\ TokenAcceptedOnlyWhen
        /\ ~call.token.signed => call.result = "Token is not valid."
        /\ (call.token.email # NoEmail /\ TokenEmailTaken) =>
              call.result = "Token is not valid."
        /\ (call.token.email # NoEmail /\ call.email # NoEmail
              /\ call.token.email # call.email) =>
              call.result = "Token is not valid."
        /\ (call.token.signed /\ call.token.expired) =>
              call.result = "Token is expired."

\* C5 amended: the same, the two email cases being those of a token that
\* decodes and is not expired; a token that decodes and is expired gets
\* 'Token is expired.' whatever its email.
C5_TokenValidation ==
    (call.op = "create" /\ call.token.present) =>
        /\ TokenAcceptedOnlyWhen
        /\ ~call.token.signed => call.result = "Token is not valid."
        /\ (call.token.signed /\ call.token.expired) =>
              call.result = "Token is expired."
        /\ (call.token.signed /\ ~call.token.expired
              /\ call.token.email # NoEmail /\ TokenEmailTaken) =>
              call.result = "Token is not valid."
        /\ (call.token.signed /\ ~call.token.expired
              /\ call.token.email # NoEmail /\ call.email # NoEmail
              /\ call.token.email # call.email) =>
              call.result = "Token is not valid."

\* A token that decodes, is not expired and carries the submitted email was
\* rejected because a User with that email exists.
C5_Witness ==
    /\ call.op = "create"
    /\ call.token.present
    /\ call.token.signed
    /\ ~call.token.expired
    /\ call.token.email = call.email
    /\ TokenEmailTaken
    /\ call.result = "Token is not valid."

\* The uid of the last reset named a user stored at that time.
ResetUidValid == reset.uid \in 1..Len(reset.before)

\* The token of the last reset was valid for the user its uid named.
ResetTokenValid ==
    ResetUidValid /\ reset.token.pk = reset.uid /\ reset.token.current

\* The users whose password the last reset changed.
PasswordChanged ==
    {i \in 1..Len(reset.before) : users[i].password # reset.before[i].password}

ResetChangesOnlyWhen ==
    /\ PasswordChanged # {} =>
          /\ ResetTokenValid
          /\ reset.new_password1 = reset.new_password2
          /\ PasswordChanged = {reset.uid}
          /\ users[reset.uid].password = reset.new_password1
    /\ ~ResetUidValid => reset.result = "uid"
    /\ (ResetUidValid /\ ~ResetTokenValid) => reset.result = "token"
    /\ reset.result # "valid" => PasswordChanged = {}

\* C6 as stated: a password changes only when the uid names a user, the token
\* is valid for that user and the two passwords are equal; an invalid uid is
\* an error on 'uid', a valid uid with an invalid token an error on 'token',
\* two different passwords fail with "The two password fields didn't match.",
\* and no failure changes a password.
C6_Original ==
    reset.called =>
        /\ ResetChangesOnlyWhen
        /\ reset.new_password1 # reset.new_password2 =>
              reset.result = "The two password fields didn't match."

\* C6 amended: the same, the mismatch message being that of a request whose
\* uid and token are valid.
C6_ResetConfirm ==
    reset.called =>
        /\ ResetChangesOnlyWhen
        /\ (ResetTokenValid /\ reset.new_password1 # reset.new_password2) =>
              reset.result = "The two password fields didn't match."

\* With two users stored, a reset with a valid uid and token and two different
\* passwords failed with the mismatch message and changed nothing.
C6_Witness ==
    /\ reset.called
    /\ Len(reset.before) = 2
    /\ ResetTokenValid
    /\ reset.new_password1 # reset.new_password2
    /\ reset.result = "The two password fields didn't match."
    /\ PasswordChanged = {}

\* The org-level admin groups of an organization.
AdminGroupsOf(organization) ==
    {g \in 1..Len(groups) : /\ groups[g].organization = organization
                            /\ groups[g].is_org_level
                            /\ groups[g].permissions = PERMISSIONS_ORG_ADMIN}

\* C7: after a successful create the user's groups are the requested ones,
\* plus the organization's org-level admin group exactly when this call
\* created the organization.
C7_GroupsOfNewUser ==
    call.result = "created" =>
        LET u == users[call.pk]
        IN  IF call.org_existed
            THEN u.core_groups = call.core_groups
            ELSE /\ \E g \in AdminGroupsOf(u.organization) :
                       u.core_groups = call.core_groups \cup {g}
                 /\ ~(AdminGroupsOf(u.organization) \subseteq call.core_groups)

\* A user joined an existing organization that has an admin group, asked for
\* another group, and got only what was asked for.
C7_Witness ==
    /\ call.result = "created"
    /\ call.org_existed
    /\ call.core_groups # {}
    /\ AdminGroupsOf(users[call.pk].organization) # {}
    /\ AdminGroupsOf(users[call.pk].organization) \cap call.core_groups = {}
    /\ users[call.pk].core_groups = call.core_groups

\* C8: the new user is active exactly when the organization did not exist
\* before the call or an invitation token was sent; what the client sends as
\* is_active does not count.
C8_ActiveIffNewOrgOrInvited ==
    (call.op = "create" /\ call.pk # 0) =>
        (users[call.pk].is_active <=> (~call.org_existed \/ call.token.present))

\* A client asked for an active user in an existing organization without a
\* token, and the user was stored inactive.
C8_Witness ==
    /\ call.op = "create"
    /\ call.pk # 0
    /\ call.org_existed
    /\ ~call.token.present
    /\ call.is_active
    /\ ~users[call.pk].is_active

====
